---- MODULE Spec2Model ----
(***************************************************************************)
(* Model of the Adash dashboard builder (src/Adash2.py): one builder       *)
(* instance, its five fields, and one action per method that reads or      *)
(* changes them (save_dashboard, which writes render_dashboard's result to *)
(* a file, is left out).                                                   *)
(*                                                                         *)
(* Python values are records tagged by "kind".  Markup is a sequence of    *)
(* tokens (records tagged by "tag") so that concatenation order and the    *)
(* class attribute of every element stay observable.                       *)
(***************************************************************************)
EXTENDS Integers, Sequences, FiniteSets

VARIABLES
    data,           \* self.data
    layout_config,  \* self.layout_config
    plots_html,     \* self.plots_html
    tables_html,    \* self.tables_html
    texts_html,     \* self.texts_html
    op,             \* name of the last method called ("init" after construction)
    args,           \* its arguments
    err,            \* exception it raised, "none" when it returned
    ret,            \* value it returned (NoneVal unless render_dashboard)
    first_cat,      \* history: category of the first fragment ever appended
    repeat          \* history: the last call repeated the call before it

vars == <<data, layout_config, plots_html, tables_html, texts_html,
          op, args, err, ret, first_cat, repeat>>

state == <<data, layout_config, plots_html, tables_html, texts_html>>

-----------------------------------------------------------------------------
(* Bounds of the model *)

MaxPlots == 2     \* cap on Len(plots_html)
MaxTables == 2    \* cap on Len(tables_html)
MaxTexts == 1     \* cap on Len(texts_html)

-----------------------------------------------------------------------------
(* Python values *)

NoneVal == [kind |-> "None"]
Str(chars) == [kind |-> "str", chars |-> chars]
IntVal(n) == [kind |-> "int", n |-> n]
DataFrame(name, ncols) == [kind |-> "DataFrame", name |-> name, ncols |-> ncols]
UserFigure(name) == [kind |-> "Figure", chart |-> "user", src |-> name, title_text |-> NoneVal]

\* bool(v) for the values used as titles
Truthy(v) == v.kind # "None" /\ ~(v.kind = "str" /\ v.chars = <<>>)

\* str.endswith
EndsWith(s, suffix) ==
    /\ Len(s) >= Len(suffix)
    /\ SubSeq(s, Len(s) - Len(suffix) + 1, Len(s)) = suffix

DotCsv == <<".", "c", "s", "v">>
DotHtml == <<".", "h", "t", "m", "l">>

\* Paths used as inputs
PathACsv == <<"a">> \o DotCsv
PathBHtml == <<"b">> \o DotHtml
PathGoneCsv == <<"g">> \o DotCsv
PathGoneHtml == <<"g">> \o DotHtml
PathNotesTxt == <<"n", ".", "t", "x", "t">>
PathUpperCsv == <<"a", ".", "C", "S", "V">>

\* The files that exist, with the table pandas parses out of each
Files == {[path |-> PathACsv, fmt |-> "csv", df |-> DataFrame("a.csv", 2)],
          [path |-> PathBHtml, fmt |-> "html", df |-> DataFrame("b.html", 2)]}

ReadFile(src, fmt) ==
    IF src.kind = "str" /\ \E f \in Files : f.path = src.chars /\ f.fmt = fmt
    THEN [err |-> "none", df |-> (CHOOSE f \in Files : f.path = src.chars).df]
    ELSE [err |-> "ReadError", df |-> NoneVal]

\* pd.read_csv(src): the parsed table, or an error (missing or unparsable file)
read_csv(src) == ReadFile(src, "csv")

\* pd.read_html(src)[0]: the first table of the document, or an error
read_html(src) == ReadFile(src, "html")

\* DataFrame.to_html(classes='display', index=False)
to_html(df) == [tag |-> "table", cls |-> "display", text |-> df.name]

\* Figure.to_html(full_html=False, include_plotlyjs='cdn')
fig_to_html(fig) ==
    [tag |-> "plotly", cls |-> fig.chart, text |-> fig.src, title |-> fig.title_text]

NL == [tag |-> "nl"]

-----------------------------------------------------------------------------
(* Construction *)

Init ==
    /\ data = NoneVal
    /\ layout_config = NoneVal
    /\ plots_html = <<>>
    /\ tables_html = <<>>
    /\ texts_html = <<>>
    /\ op = "init"
    /\ args = NoneVal
    /\ err = "none"
    /\ ret = NoneVal
    /\ first_cat = "none"
    /\ repeat = FALSE

\* What every call records about itself
Called(name, arguments) ==
    /\ op' = name
    /\ args' = arguments
    /\ repeat' = (op = name /\ args = arguments)

\* first_cat after a call that turned the list old of category cat into new
Appended(cat, old, new) ==
    first_cat' = IF first_cat = "none" /\ Len(new) > Len(old) THEN cat ELSE first_cat

-----------------------------------------------------------------------------
(* input_file *)

input_file(d, file_type) ==
    LET r == IF file_type = "csv" THEN read_csv(d) ELSE read_html(d)
    IN  /\ Called("input_file", [data |-> d, file_type |-> file_type])
        /\ ret' = NoneVal
        /\ IF file_type = "df"
           THEN data' = d /\ err' = "none"
           ELSE IF file_type \in {"csv", "html"}
           THEN /\ err' = r.err
                /\ data' = IF r.err = "none" THEN r.df ELSE data
           ELSE /\ err' = "UnsupportedSourceKind"   \* ValueError("Unsupported file type...")
                /\ data' = data
        /\ UNCHANGED <<layout_config, plots_html, tables_html, texts_html, first_cat>>

-----------------------------------------------------------------------------
(* set_layout *)

\* range(col): empty when col <= 0
Range0(col) == 1 .. (IF col > 0 THEN col ELSE 0)

LayoutOf(layout_array) ==
    [kind |-> "dict",
     rows |-> [row \in 1 .. Len(layout_array) |->
                 [columns |-> [i \in Range0(layout_array[row]) |->
                                 [type |-> "plot", index |-> i - 1]]]]]

set_layout(layout_array) ==
    /\ Called("set_layout", [layout_array |-> layout_array])
    /\ ret' = NoneVal
    /\ err' = "none"
    /\ layout_config' = LayoutOf(layout_array)
    /\ UNCHANGED <<data, plots_html, tables_html, texts_html, first_cat>>

-----------------------------------------------------------------------------
(* adash_plot *)

PlotTypes == {"line", "bar", "scatter", "histogram"}

\* The slots of a layout in the order the two nested loops visit them
RECURSIVE Slots(_)
Slots(rows) ==
    IF rows = <<>> THEN <<>> ELSE Head(rows).columns \o Slots(Tail(rows))

\* px.<plot_type>(self.data, x=self.data.columns[0], y=self.data.columns[1])
px_figure(plot_type, d) ==
    IF d.kind # "DataFrame" THEN [err |-> "AttributeError", fig |-> NoneVal]
    ELSE IF d.ncols < 2 THEN [err |-> "IndexError", fig |-> NoneVal]
    ELSE [err |-> "none",
          fig |-> [kind |-> "Figure", chart |-> plot_type, src |-> d.name,
                   title_text |-> NoneVal]]

\* fig.update_layout(title_text=title)
update_layout(fig, title) == [fig EXCEPT !.title_text = title]

\* Mutant of plot_loop: the fragment is appended before the kind is checked
RECURSIVE plot_loop_AppendFirst(_, _, _, _, _, _)
plot_loop_AppendFirst(slots, plot_type, title, position, d, plots) ==
    LET appended == Append(plots, [html |-> NoneVal, title |-> title, position |-> position])
    IN  IF slots = <<>> THEN [err |-> "none", plots |-> plots]
        ELSE IF plot_type \notin PlotTypes
        THEN [err |-> "UnsupportedChartKind", plots |-> appended]
        ELSE plot_loop_AppendFirst(Tail(slots), plot_type, title, position, d, appended)

\* Mutant of plot_loop: the loop is left after its first slot
plot_loop_FirstSlotOnly(slots, plot_type, title, position, d, plots) ==
    IF slots = <<>> THEN [err |-> "none", plots |-> plots]
    ELSE IF plot_type \notin PlotTypes
    THEN [err |-> "UnsupportedChartKind", plots |-> plots]
    ELSE LET built == px_figure(plot_type, d)
             fig == IF title # NoneVal THEN update_layout(built.fig, title) ELSE built.fig
         IN  IF built.err # "none" THEN [err |-> built.err, plots |-> plots]
             ELSE [err |-> "none",
                   plots |-> Append(plots, [html |-> fig_to_html(fig), title |-> title,
                                            position |-> position])]

\* One pass of the loop body for every slot; plots is self.plots_html so far.
\* An exception leaves the list as the earlier iterations made it.
RECURSIVE plot_loop(_, _, _, _, _, _)
plot_loop(slots, plot_type, title, position, d, plots) ==
    IF slots = <<>> THEN [err |-> "none", plots |-> plots]
    ELSE IF plot_type \notin PlotTypes
    THEN [err |-> "UnsupportedChartKind", plots |-> plots]  \* ValueError("Unsupported plot type...")
    ELSE LET built == px_figure(plot_type, d)
             fig == IF title # NoneVal THEN update_layout(built.fig, title) ELSE built.fig
         IN  IF built.err # "none" THEN [err |-> built.err, plots |-> plots]
             ELSE plot_loop(Tail(slots), plot_type, title, position, d,
                            Append(plots, [html |-> fig_to_html(fig), title |-> title,
                                           position |-> position]))

\* Mutant of PlotResult: an unset layout is read as a layout without rows
PlotResult_NoLayoutNoRows(fig, plot_type, title, position) ==
    IF data = NoneVal /\ fig = NoneVal
    THEN [err |-> "MissingData", plots |-> plots_html]
    ELSE IF fig # NoneVal
    THEN [err |-> "none",
          plots |-> Append(plots_html, [html |-> fig_to_html(fig), title |-> title,
                                        position |-> position])]
    ELSE IF layout_config = NoneVal
    THEN [err |-> "none", plots |-> plots_html]
    ELSE plot_loop(Slots(layout_config.rows), plot_type, title, position, data, plots_html)

PlotResult(fig, plot_type, title, position) ==
    IF data = NoneVal /\ fig = NoneVal
    THEN [err |-> "MissingData", plots |-> plots_html]      \* ValueError("No data or figure provided...")
    ELSE IF fig # NoneVal
    THEN [err |-> "none",
          plots |-> Append(plots_html, [html |-> fig_to_html(fig), title |-> title,
                                        position |-> position])]
    ELSE IF layout_config = NoneVal
    THEN [err |-> "TypeError", plots |-> plots_html]        \* None['rows']
    ELSE plot_loop(Slots(layout_config.rows), plot_type, title, position, data, plots_html)

adash_plot(fig, plot_type, title, position) ==
    LET r == PlotResult(fig, plot_type, title, position)
    IN  /\ Len(r.plots) <= MaxPlots
        /\ Called("adash_plot", [fig |-> fig, plot_type |-> plot_type, title |-> title,
                                 position |-> position])
        /\ ret' = NoneVal
        /\ err' = r.err
        /\ plots_html' = r.plots
        /\ Appended("plot", plots_html, r.plots)
        /\ UNCHANGED <<data, layout_config, tables_html, texts_html>>

-----------------------------------------------------------------------------
(* adash_table *)

\* Mutant of TableResult: without a source and without a Dataset the call
\* returns instead of raising
TableResult_SilentWithoutData(d) ==
    IF d # NoneVal
    THEN IF d.kind = "DataFrame"
         THEN [err |-> "none", tables |-> Append(tables_html, to_html(d))]
         ELSE IF d.kind = "str"
         THEN IF EndsWith(d.chars, DotCsv)
              THEN LET r == read_csv(d)
                   IN  IF r.err = "none"
                       THEN [err |-> "none", tables |-> Append(tables_html, to_html(r.df))]
                       ELSE [err |-> r.err, tables |-> tables_html]
              ELSE IF EndsWith(d.chars, DotHtml)
              THEN LET r == read_html(d)
                   IN  IF r.err = "none"
                       THEN [err |-> "none", tables |-> Append(tables_html, to_html(r.df))]
                       ELSE [err |-> r.err, tables |-> tables_html]
              ELSE [err |-> "UnsupportedSourceKind", tables |-> tables_html]  \* ValueError("Unsupported file format...")
         ELSE [err |-> "none", tables |-> tables_html]      \* neither branch: falls through
    ELSE IF data # NoneVal
         THEN [err |-> "none", tables |-> Append(tables_html, to_html(data))]
         ELSE [err |-> "none", tables |-> tables_html]

TableResult(d) ==
    IF d # NoneVal
    THEN IF d.kind = "DataFrame"
         THEN [err |-> "none", tables |-> Append(tables_html, to_html(d))]
         ELSE IF d.kind = "str"
         THEN IF EndsWith(d.chars, DotCsv)
              THEN LET r == read_csv(d)
                   IN  IF r.err = "none"
                       THEN [err |-> "none", tables |-> Append(tables_html, to_html(r.df))]
                       ELSE [err |-> r.err, tables |-> tables_html]
              ELSE IF EndsWith(d.chars, DotHtml)
              THEN LET r == read_html(d)
                   IN  IF r.err = "none"
                       THEN [err |-> "none", tables |-> Append(tables_html, to_html(r.df))]
                       ELSE [err |-> r.err, tables |-> tables_html]
              ELSE [err |-> "UnsupportedSourceKind", tables |-> tables_html]  \* ValueError("Unsupported file format...")
         ELSE [err |-> "none", tables |-> tables_html]      \* neither branch: falls through
    ELSE IF data # NoneVal
         THEN [err |-> "none", tables |-> Append(tables_html, to_html(data))]
         ELSE [err |-> "MissingData", tables |-> tables_html]  \* ValueError("No data available...")

adash_table(d) ==
    LET r == TableResult(d)
    IN  /\ Len(r.tables) <= MaxTables
        /\ Called("adash_table", [data |-> d])
        /\ ret' = NoneVal
        /\ err' = r.err
        /\ tables_html' = r.tables
        /\ Appended("table", tables_html, r.tables)
        /\ UNCHANGED <<data, layout_config, plots_html, texts_html>>
-----------------------------------------------------------------------------
(* adash_text *)

_get_text_position_class(position) ==
    IF position = "left" THEN "text-left"
    ELSE IF position = "right" THEN "text-right"
    ELSE IF position = "justify" THEN "text-justify"
    ELSE IF position = "start" THEN "text-start"
    ELSE IF position = "end" THEN "text-end"
    ELSE "text-center"

_get_title_position_class(position) ==
    IF position = "left" THEN "text-left"
    ELSE IF position = "right" THEN "text-right"
    ELSE "text-center"

\* The text a plain (non f-) string literal leaves where an f-string would
\* have substituted position_class
UnformattedPlaceholder == "{position_class}"

\* <li>item</li> for every item
Items(list) == [i \in 1 .. Len(list) |-> [tag |-> "li", text |-> list[i]]]

\* f"<h2 class='text-2xl font-bold {position_class}'>{heading}</h2>"
HeadingMarkup(heading, position_class) ==
    <<[tag |-> "h2", cls |-> <<"text-2xl", "font-bold", position_class>>, text |-> heading]>>

\* f"<p class='mt-2 {position_class}'>{line}</p>" for every line
ParagraphMarkup(textlines, position_class) ==
    [i \in 1 .. Len(textlines) |->
        [tag |-> "p", cls |-> <<"mt-2", position_class>>, text |-> textlines[i]]]

\* "<ol class='mt-2 list-decimal list-inside {position_class}'>" is not an
\* f-string: the braces reach the markup as written
OrderedListMarkup(ordered_list, position_class) ==
    <<[tag |-> "ol", cls |-> <<"mt-2", "list-decimal", "list-inside", UnformattedPlaceholder>>]>>
    \o Items(ordered_list) \o <<[tag |-> "/ol"]>>

\* "<ul class='mt-2 list-disc list-inside {position_class}'>", likewise
UnorderedListMarkup(unordered_list, position_class) ==
    <<[tag |-> "ul", cls |-> <<"mt-2", "list-disc", "list-inside", UnformattedPlaceholder>>]>>
    \o Items(unordered_list) \o <<[tag |-> "/ul"]>>

\* heading is a string, "" standing for None; the three lists are sequences,
\* <<>> standing for None (both are falsy in the `if`s)
TextMarkup(heading, textlines, ordered_list, unordered_list, position) ==
    LET position_class == _get_text_position_class(position)
    IN  (IF heading # "" THEN HeadingMarkup(heading, position_class) ELSE <<>>)
        \o (IF textlines # <<>> THEN ParagraphMarkup(textlines, position_class) ELSE <<>>)
        \o (IF ordered_list # <<>> THEN OrderedListMarkup(ordered_list, position_class) ELSE <<>>)
        \o (IF unordered_list # <<>> THEN UnorderedListMarkup(unordered_list, position_class) ELSE <<>>)

adash_text(heading, textlines, ordered_list, unordered_list, position) ==
    LET text_html == TextMarkup(heading, textlines, ordered_list, unordered_list, position)
    IN  /\ Len(texts_html) < MaxTexts
        /\ Called("adash_text",
                  [heading |-> heading, textlines |-> textlines,
                   ordered_list |-> ordered_list, unordered_list |-> unordered_list,
                   position |-> position])
        /\ ret' = NoneVal
        /\ err' = "none"
        /\ texts_html' = Append(texts_html, text_html)
        /\ Appended("text", texts_html, texts_html')
        /\ UNCHANGED <<data, layout_config, plots_html, tables_html>>

-----------------------------------------------------------------------------
(* render_dashboard *)

\* '\n'.join(fragments), each fragment a one-token markup
RECURSIVE JoinTables(_)
JoinTables(tables) ==
    IF tables = <<>> THEN <<>>
    ELSE IF Len(tables) = 1 THEN <<tables[1]>>
    ELSE <<Head(tables), NL>> \o JoinTables(Tail(tables))

\* '\n'.join(fragments), each fragment a sequence of tokens
RECURSIVE JoinTexts(_)
JoinTexts(texts) ==
    IF texts = <<>> THEN <<>>
    ELSE IF Len(texts) = 1 THEN texts[1]
    ELSE Head(texts) \o <<NL>> \o JoinTexts(Tail(texts))

\* f"{title_html}\n{plot['html']}\n" for every plot
RECURSIVE PlotsContent(_)
PlotsContent(plots) ==
    IF plots = <<>> THEN <<>>
    ELSE LET plot == Head(plots)
             title_html ==
                 IF Truthy(plot.title)
                 THEN <<[tag |-> "h3",
                         cls |-> <<"text-xl", "font-semibold",
                                   _get_title_position_class(plot.position)>>,
                         text |-> plot.title]>>
                 ELSE <<>>
         IN  title_html \o <<NL, plot.html, NL>> \o PlotsContent(Tail(plots))

\* Mutant of ContentHtml: the texts are concatenated ahead of the tables
ContentHtml_TextsFirst(tables, texts, plots) ==
    JoinTexts(texts) \o JoinTables(tables) \o PlotsContent(plots)

ContentHtml(tables, texts, plots) ==
    JoinTables(tables) \o JoinTexts(texts) \o PlotsContent(plots)

\* Template(base_html_template).render(title=title, content=content_html)
Document(title, content) == [kind |-> "str", title |-> title, content |-> content]

\* Mutant of render_dashboard: rendering drains the chart list
render_dashboard_Draining(title) ==
    /\ Called("render_dashboard", [title |-> title])
    /\ err' = "none"
    /\ ret' = Document(title, ContentHtml(tables_html, texts_html, plots_html))
    /\ plots_html' = <<>>
    /\ UNCHANGED <<data, layout_config, tables_html, texts_html, first_cat>>

render_dashboard(title) ==
    /\ Called("render_dashboard", [title |-> title])
    /\ err' = "none"
    /\ ret' = Document(title, ContentHtml(tables_html, texts_html, plots_html))
    /\ UNCHANGED <<data, layout_config, plots_html, tables_html, texts_html, first_cat>>

-----------------------------------------------------------------------------
(* Inputs *)

Wide == DataFrame("wide", 2)       \* two columns
Narrow == DataFrame("narrow", 1)   \* one column
FigA == UserFigure("figA")
TitleT == Str(<<"T">>)

-----------------------------------------------------------------------------
(* The builder driven by a host script: every method, a few arguments each *)

Next ==
    \/ \E d \in {Wide, Narrow} : input_file(d, "df")
    \/ \E file_type \in {"csv", "xlsx"} : input_file(Str(PathGoneCsv), file_type)
    \/ \E layout_array \in {<<>>, <<2>>, <<1, 0>>} : set_layout(layout_array)
    \/ \E fig \in {NoneVal, FigA}, plot_type \in {"line", "pie"} :
          adash_plot(fig, plot_type, IF fig = NoneVal THEN TitleT ELSE NoneVal, "left")
    \/ \E d \in {NoneVal, Str(PathNotesTxt), Str(PathGoneCsv)} : adash_table(d)
    \/ \E heading \in {"", "H"} : adash_text(heading, <<>>, <<"a">>, <<>>, "right")
    \/ \E title \in {"Adash Dashboard", "Other"} : render_dashboard(title)

Spec == Init /\ [][Next]_vars

-----------------------------------------------------------------------------
(* Chart requests: every chart kind over layouts of zero to two slots in    *)
(* one or two rows, negative and zero counts included                       *)

ChartLayouts == {<<>>, <<0>>, <<1>>, <<2>>, <<2, -1>>, <<1, 1>>}

NextChart ==
    \/ \E d \in {Wide, Narrow} : input_file(d, "df")
    \/ \E layout_array \in ChartLayouts : set_layout(layout_array)
    \/ \E plot_type \in PlotTypes \cup {"pie"} :
          adash_plot(NoneVal, plot_type, TitleT, "right")
    \/ adash_table(Str(PathACsv))

SpecChart == Init /\ [][NextChart]_vars

-----------------------------------------------------------------------------
(* Table requests: every shape of source, with and without a Dataset *)

TableSources ==
    {NoneVal, Wide, Narrow, IntVal(42),
     Str(PathACsv), Str(PathBHtml), Str(PathGoneCsv), Str(PathGoneHtml),
     Str(PathNotesTxt), Str(PathUpperCsv)}

NextTable ==
    \/ \E d \in {Wide, Narrow} : input_file(d, "df")
    \/ \E path \in {PathACsv, PathBHtml, PathGoneCsv},
          file_type \in {"csv", "html", "xlsx"} :
          input_file(Str(path), file_type)
    \/ \E d \in TableSources : adash_table(d)
    \/ adash_plot(FigA, "line", TitleT, "left")
    \/ adash_text("H", <<>>, <<>>, <<>>, "left")
    \/ render_dashboard("Adash Dashboard")

SpecTable == Init /\ [][NextTable]_vars

-----------------------------------------------------------------------------
(* Text blocks: every position, every combination of elements *)

Positions == {"left", "right", "justify", "start", "end", "center", "middle"}

NextText ==
    \/ \E heading \in {"", "H"}, textlines \in {<<>>, <<"p", "q">>},
          ordered_list \in {<<>>, <<"a">>}, unordered_list \in {<<>>, <<"b">>},
          position \in Positions :
          adash_text(heading, textlines, ordered_list, unordered_list, position)
    \/ render_dashboard("Adash Dashboard")

SpecText == Init /\ [][NextText]_vars

-----------------------------------------------------------------------------
(* Vocabulary of the properties *)

IsPrefix(a, b) == Len(a) <= Len(b) /\ SubSeq(b, 1, Len(a)) = a

TextTags == {"h2", "p", "ol", "/ol", "ul", "/ul", "li"}

IsTableToken(tok) == tok.tag = "table"
IsTextToken(tok) == tok.tag \in TextTags
IsChartToken(tok) == tok.tag = "plotly"

\* 1 for table markup, 2 for text markup, 3 for chart markup and chart titles
Rank(tok) == IF IsTableToken(tok) THEN 1 ELSE IF IsTextToken(tok) THEN 2 ELSE 3

RECURSIVE Flatten(_)
Flatten(seqs) == IF seqs = <<>> THEN <<>> ELSE Head(seqs) \o Flatten(Tail(seqs))

\* Number of slots of a layout descriptor: the column counts of its rows, summed
RECURSIVE SlotCount(_)
SlotCount(rows) ==
    IF rows = <<>> THEN 0 ELSE Len(Head(rows).columns) + SlotCount(Tail(rows))

Failed == err # "none"

-----------------------------------------------------------------------------
(* C1: whatever the order of the adash_table, adash_text and adash_plot     *)
(* calls, each call only appends to its own sequence, and the body that     *)
(* render_dashboard returns holds the table fragments in insertion order,   *)
(* then the text fragments in insertion order, then the chart fragments in  *)
(* insertion order, with no token of a later category before one of an      *)
(* earlier category.                                                        *)

\* The list only grew at its end
AppendOnly(list, list2) == list2 = list \/ IsPrefix(list, list2)

\* No token of a later category stands before a token of an earlier one
\* (ranks never decrease from one token to the next)
CategorySorted(body) ==
    \A i \in 1 .. Len(body) - 1 : Rank(body[i]) <= Rank(body[i + 1])

ChartMarkups == [i \in 1 .. Len(plots_html) |-> plots_html[i].html]

RenderedInCategoryOrder ==
    /\ SelectSeq(ret.content, IsTableToken) = tables_html
    /\ SelectSeq(ret.content, IsTextToken) = Flatten(texts_html)
    /\ SelectSeq(ret.content, IsChartToken) = ChartMarkups
    /\ CategorySorted(SelectSeq(ret.content, LAMBDA tok : tok.tag # "nl"))

-----------------------------------------------------------------------------
(* C8: render_dashboard changes none of data, layout_config and the three   *)
(* fragment lists, and a render_dashboard call that follows another one     *)
(* with the same title returns the same document.                           *)

C8_RenderPure ==
    [][op' = "render_dashboard" =>
          /\ state' = state
          /\ (op = "render_dashboard" /\ args'.title = args.title) => ret' = ret]_vars

\* Two render_dashboard calls in a row with the same title, over a builder
\* that holds fragments of all three categories
C8_Witness ==
    /\ op = "render_dashboard" /\ repeat
    /\ tables_html # <<>> /\ texts_html # <<>> /\ plots_html # <<>>

-----------------------------------------------------------------------------
(* C10: a call of input_file, adash_plot or adash_table that raises leaves  *)
(* data, layout_config and the three fragment lists as they were.           *)

C10_AllOrNothing ==
    [][(op' \in {"input_file", "adash_plot", "adash_table"} /\ Failed') => state' = state]_vars

\* adash_plot raised over a layout of two slots with a Dataset loaded
C10_Witness ==
    /\ op = "adash_plot" /\ Failed
    /\ data # NoneVal /\ layout_config # NoneVal
    /\ SlotCount(layout_config.rows) >= 2

-----------------------------------------------------------------------------
(* C2 *)

\* adash_plot was called without a figure, with a valid kind, on a builder
\* with a Dataset and a layout of at least one slot
AutoChartCall ==
    /\ op' = "adash_plot"
    /\ args'.fig = NoneVal
    /\ args'.plot_type \in PlotTypes
    /\ data # NoneVal
    /\ layout_config # NoneVal
    /\ SlotCount(layout_config.rows) >= 1

\* The call appended one fragment per slot, each with the call's title and
\* position, and left the tables and the texts alone
AppendedOnePerSlot ==
    LET k == SlotCount(layout_config.rows)
        n == Len(plots_html)
    IN  /\ err' = "none"
        /\ Len(plots_html') = n + k
        /\ SubSeq(plots_html', 1, n) = plots_html
        /\ \A i \in n + 1 .. n + k :
              /\ plots_html'[i].title = args'.title
              /\ plots_html'[i].position = args'.position
        /\ tables_html' = tables_html
        /\ texts_html' = texts_html

(* C2 as claimed: with a Dataset loaded, a layout of k >= 1 slots, no       *)
(* prebuilt chart and a kind among line, bar, scatter, histogram, one       *)
(* adash_plot call appends exactly k chart fragments carrying the call's    *)
(* title and position, and leaves the tables and the texts unchanged.       *)
C2_Original == [][AutoChartCall => AppendedOnePerSlot]_vars

(* C2 amended: the same, for a Dataset of at least two columns (the chart   *)
(* is built from columns[0] and columns[1]).                                *)
C2_Amended == [][(AutoChartCall /\ data.ncols >= 2) => AppendedOnePerSlot]_vars

\* An auto-generated chart request over a two-row layout of two slots, on a
\* builder that already holds a table
C2_Witness ==
    /\ op = "adash_plot" /\ ~Failed
    /\ args.fig = NoneVal
    /\ layout_config # NoneVal
    /\ Len(layout_config.rows) = 2 /\ SlotCount(layout_config.rows) = 2
    /\ Len(plots_html) = 2
    /\ tables_html # <<>>

-----------------------------------------------------------------------------
(* C3 *)

\* adash_plot was called without a figure on a builder with a Dataset and
\* no layout ever set
NoLayoutCall ==
    /\ op' = "adash_plot"
    /\ args'.fig = NoneVal
    /\ data # NoneVal
    /\ layout_config = NoneVal

-----------------------------------------------------------------------------
(* C4: set_layout raises InvalidLayout when a count of its argument is      *)
(* negative, leaving the stored layout as it was, and succeeds when every   *)
(* count is >= 0.                                                           *)

C4_RejectsNegative ==
    [][op' = "set_layout" =>
          IF \E i \in DOMAIN args'.layout_array : args'.layout_array[i] < 0
          THEN err' = "InvalidLayout" /\ layout_config' = layout_config
          ELSE err' = "none"]_vars

-----------------------------------------------------------------------------
(* C6: without a prebuilt chart, with a Dataset loaded and a layout set,    *)
(* adash_plot raises UnsupportedChartKind for every kind outside line, bar, *)
(* scatter, histogram, whatever the layout (zero slots included), and       *)
(* appends no chart fragment.                                               *)

C6_RejectsUnknownKind ==
    [][(/\ op' = "adash_plot"
        /\ args'.fig = NoneVal
        /\ args'.plot_type \notin PlotTypes
        /\ data # NoneVal
        /\ layout_config # NoneVal)
       => (err' = "UnsupportedChartKind" /\ plots_html' = plots_html)]_vars

-----------------------------------------------------------------------------
(* C5: adash_table with a source that is neither a DataFrame, nor a path    *)
(* ending in .csv, nor a path ending in .html (a source that is no string   *)
(* included) raises UnsupportedSourceKind and appends no table fragment.    *)

UnsupportedSource(d) ==
    /\ d # NoneVal
    /\ d.kind # "DataFrame"
    /\ ~(d.kind = "str" /\ (EndsWith(d.chars, DotCsv) \/ EndsWith(d.chars, DotHtml)))

C5_RejectsOtherSources ==
    [][(op' = "adash_table" /\ UnsupportedSource(args'.data))
       => (err' = "UnsupportedSourceKind" /\ tables_html' = tables_html)]_vars

-----------------------------------------------------------------------------
(* C7: adash_table without a source raises MissingData and leaves the three *)
(* fragment lists unchanged when no Dataset is loaded, and appends exactly  *)
(* one table fragment once a Dataset is loaded.                             *)

C7_TableFromDataset ==
    [][(op' = "adash_table" /\ args'.data = NoneVal) =>
          IF data = NoneVal
          THEN /\ err' = "MissingData"
               /\ tables_html' = tables_html
               /\ texts_html' = texts_html
               /\ plots_html' = plots_html
          ELSE /\ err' = "none"
               /\ Len(tables_html') = Len(tables_html) + 1
               /\ SubSeq(tables_html', 1, Len(tables_html)) = tables_html]_vars

\* The call raised MissingData on a builder that already held fragments
C7_Witness ==
    /\ op = "adash_table" /\ args.data = NoneVal /\ err = "MissingData"
    /\ data = NoneVal
    /\ tables_html # <<>> /\ texts_html # <<>> /\ plots_html # <<>>

-----------------------------------------------------------------------------
(* C9: in the fragment adash_text appends, the heading, every paragraph,    *)
(* the ordered-list block and the unordered-list block each carry the       *)
(* alignment class resolved from the call's position.                       *)

HasClass(tok, class) == \E i \in DOMAIN tok.cls : tok.cls[i] = class

C9_EveryElementAligned ==
    op = "adash_text" =>
        LET fragment == texts_html[Len(texts_html)]
        IN  \A i \in DOMAIN fragment :
                fragment[i].tag \in {"h2", "p", "ol", "ul"} =>
                    HasClass(fragment[i], _get_text_position_class(args.position))

====
